---- MODULE Spec2Model ----
(***************************************************************************)
(* Smart To-Do Builder (src/app.py): the feedback memory file, the         *)
(* similarity matcher, the reply normalizer and the Streamlit session      *)
(* handlers (Generate, Save, Clear, Add blank task).                       *)
(*                                                                         *)
(* Texts are sequences of one-character strings.  JSON / Python values     *)
(* are strings that keep their type: "null", "true", "false", "n:0" and    *)
(* "s:<text>" for a str; "absent" marks a key a dict does not hold.        *)
(***************************************************************************)
EXTENDS Integers, Sequences, FiniteSets, TLC

VARIABLES
    client,             \* TRUE when OPENAI_API_KEY was set at startup
    MEMORY_FILE,        \* feedback_memory.json: [exists, valid, data]
    todos,              \* st.session_state["todos"]
    ai_original_todos,  \* st.session_state["ai_original_todos"]
    aliased,            \* both session keys hold the same list object
    current_summary,    \* st.session_state["current_summary"]
    uuid_count,         \* uuid4 values drawn so far
    examples,           \* last result of find_similar_examples
    example_idx,        \* positions in the store of those examples
    query,              \* summary_text of the last matcher call
    parsed,             \* the parsed reply handed to the normalizer
    cleaned,            \* the normalizer's result
    pc,                 \* per session position inside record_feedback
    memory,             \* per session local list inside record_feedback
    feedback,           \* per session arguments of record_feedback
    last,               \* history: the handler that ran last, its outcome
    generated,          \* history: items of the last successful generation
    writes              \* history: number of save_memory calls so far

vars == <<client, MEMORY_FILE, todos, ai_original_todos, aliased,
          current_summary, uuid_count, examples, example_idx, query,
          parsed, cleaned, pc, memory, feedback, last, generated, writes>>

sessionVars == <<client, todos, ai_original_todos, aliased, current_summary,
                 uuid_count, generated>>
matchVars == <<examples, example_idx, query>>
normVars == <<parsed, cleaned>>
raceVars == <<pc, memory, feedback>>

----------------------------------------------------------------------------
(* Program constants *)

MAX_MEMORY_ITEMS == 25
max_examples == 3
MIN_SUMMARY_LEN == 10

(* Bounds of the model *)

MaxTodos == 2
MaxSaves == 1
MaxUuid == 1
MaxStore == 4
MaxElems == 2

----------------------------------------------------------------------------
(* Python values *)

Null == "null"
PyTrue == "true"
PyFalse == "false"
Absent == "absent"
EmptyStr == "s:"

\* bool(v) is False exactly for these
Falsy == {"null", "false", "n:0", "s:"}

Truthy(v) == v \notin Falsy

PyBool(v) == IF Truthy(v) THEN PyTrue ELSE PyFalse

\* d.get(key, default) on a dict given as a total map with Absent marks
Get(d, key, default) == IF d[key] = Absent THEN default ELSE d[key]

\* str(uuid.uuid4()): the n-th value drawn
Uuid4(n) == "s:uuid-" \o ToString(n)

Fields == {"id", "todo_type", "purchase_item", "action", "assign_to",
           "urgency", "ddl", "done"}

----------------------------------------------------------------------------
(* Texts *)

Uppers == <<"A","B","C","D","E","F","G","H","I","J","K","L","M",
            "N","O","P","Q","R","S","T","U","V","W","X","Y","Z">>
Lowers == <<"a","b","c","d","e","f","g","h","i","j","k","l","m",
            "n","o","p","q","r","s","t","u","v","w","x","y","z">>
Digits == {"0","1","2","3","4","5","6","7","8","9"}
Whitespace == {" ", "\t", "\n"}

Range(s) == {s[i] : i \in DOMAIN s}

UpperSet == Range(Uppers)
TokenChars == Range(Uppers) \cup Range(Lowers) \cup Digits \cup {"_", "'"}

\* str.lower() on one character
Lower(c) ==
    IF c \in UpperSet
    THEN Lowers[CHOOSE i \in DOMAIN Uppers : Uppers[i] = c]
    ELSE c

\* the character class [\w']
IsTokenChar(c) == c \in TokenChars

RECURSIVE FindAll(_, _, _)
\* re.findall(r"[\w']+", text), lowered and collected into a set:
\* cur is the run being read, the result the set of maximal runs
FindAll(text, i, cur) ==
    IF i > Len(text)
    THEN IF cur = <<>> THEN {} ELSE {cur}
    ELSE IF IsTokenChar(text[i])
         THEN FindAll(text, i + 1, Append(cur, Lower(text[i])))
         ELSE (IF cur = <<>> THEN {} ELSE {cur}) \cup FindAll(text, i + 1, <<>>)

tokenize(text) == FindAll(text, 1, <<>>)

RECURSIVE LStrip(_)
LStrip(s) == IF s # <<>> /\ Head(s) \in Whitespace THEN LStrip(Tail(s)) ELSE s

RECURSIVE RStrip(_)
RStrip(s) ==
    IF s # <<>> /\ s[Len(s)] \in Whitespace
    THEN RStrip(SubSeq(s, 1, Len(s) - 1))
    ELSE s

\* str.strip()
Strip(s) == RStrip(LStrip(s))

----------------------------------------------------------------------------
(* The memory file *)

NoFile == [exists |-> FALSE, valid |-> FALSE, data |-> <<>>]
CorruptFile == [exists |-> TRUE, valid |-> FALSE, data |-> <<>>]
FileOf(list) == [exists |-> TRUE, valid |-> TRUE, data |-> list]

load_memory(file) ==
    IF file.exists
    THEN IF file.valid THEN file.data ELSE <<>>
    ELSE <<>>

\* faulty variant: memory[-(MAX_MEMORY_ITEMS + 1):]
trimmed_one_more(list) ==
    IF Len(list) <= MAX_MEMORY_ITEMS + 1
    THEN list
    ELSE SubSeq(list, Len(list) - MAX_MEMORY_ITEMS, Len(list))

\* faulty variant: memory[:MAX_MEMORY_ITEMS]
trimmed_oldest_kept(list) ==
    IF Len(list) <= MAX_MEMORY_ITEMS THEN list ELSE SubSeq(list, 1, MAX_MEMORY_ITEMS)

\* memory[-MAX_MEMORY_ITEMS:]
trimmed(list) ==
    IF Len(list) <= MAX_MEMORY_ITEMS
    THEN list
    ELSE SubSeq(list, Len(list) - MAX_MEMORY_ITEMS + 1, Len(list))

\* faulty variant: the list written whole
save_memory_untrimmed(list) == FileOf(list)

\* the file after save_memory(list)
save_memory(list) == FileOf(trimmed(list))

\* faulty variant: the AI output stored as the approved list
MemoryRecordUnedited(summary_text, ai_todos, edited_todos) ==
    [summary |-> summary_text, ai_todos |-> ai_todos, approved_todos |-> ai_todos]

MemoryRecord(summary_text, ai_todos, edited_todos) ==
    [summary |-> summary_text, ai_todos |-> ai_todos, approved_todos |-> edited_todos]

\* the file after record_feedback(summary_text, ai_todos, edited_todos)
record_feedback(file, summary_text, ai_todos, edited_todos) ==
    IF summary_text = <<>>
    THEN file
    ELSE save_memory(Append(load_memory(file),
                            MemoryRecord(summary_text, ai_todos, edited_todos)))

----------------------------------------------------------------------------
(* The similarity matcher *)

\* faulty variant: ties count as greater, so equal scores swap places
ScoreGe(a, b) == a.num * b.den >= b.num * a.den

\* score a > score b, scores kept as fractions num / den
ScoreGt(a, b) == a.num * b.den > b.num * a.den

\* intersection / union if union else 0
Score(intersection, union) ==
    IF union # 0 THEN [num |-> intersection, den |-> union] ELSE [num |-> 0, den |-> 1]

\* faulty variant: score >= 0
PositiveOrZero(score) == score.num >= 0

\* score > 0
Positive(score) == score.num > 0

RECURSIVE Scored(_, _, _)
\* the scored list built by the loop over memory, from position i on
Scored(list, target_tokens, i) ==
    IF i > Len(list)
    THEN <<>>
    ELSE LET candidate_tokens == tokenize(list[i].summary)
             intersection == Cardinality(target_tokens \cap candidate_tokens)
             union == Cardinality(target_tokens \cup candidate_tokens)
             rest == Scored(list, target_tokens, i + 1)
         IN  IF candidate_tokens = {}
             THEN rest
             ELSE IF Positive(Score(intersection, union))
                  THEN <<[num |-> Score(intersection, union).num,
                          den |-> Score(intersection, union).den,
                          idx |-> i]>> \o rest
                  ELSE rest

RECURSIVE InsertDesc(_, _)
\* x, which came after every element of sorted, put behind all that score
\* at least as much
InsertDesc(sorted, x) ==
    IF sorted = <<>>
    THEN <<x>>
    ELSE IF ScoreGt(x, Head(sorted))
         THEN <<x>> \o sorted
         ELSE <<Head(sorted)>> \o InsertDesc(Tail(sorted), x)

RECURSIVE SortDesc(_)
\* list.sort(key=score, reverse=True): stable, descending
SortDesc(s) ==
    IF s = <<>>
    THEN <<>>
    ELSE InsertDesc(SortDesc(SubSeq(s, 1, Len(s) - 1)), s[Len(s)])

\* scored[:k]
Prefix(s, k) == SubSeq(s, 1, IF Len(s) < k THEN Len(s) ELSE k)

\* scored.sort(...) and scored[:max_examples]
TopScored(scored) == Prefix(SortDesc(scored), max_examples)

\* positions in the store of the records find_similar_examples returns
similar_positions(file, summary_text) ==
    LET list == load_memory(file)
        target_tokens == tokenize(summary_text)
    IN  IF list = <<>>
        THEN <<>>
        ELSE IF target_tokens = {}
             THEN <<>>
             ELSE LET top == TopScored(Scored(list, target_tokens, 1))
                  IN  [j \in DOMAIN top |-> top[j].idx]

find_similar_examples(file, summary_text) ==
    LET list == load_memory(file)
        pos == similar_positions(file, summary_text)
    IN  [j \in DOMAIN pos |-> list[pos[j]]]

----------------------------------------------------------------------------
(* The reply normalizer: call_openai_generate from the parsed reply on *)

\* one cleaned item, its id already decided
CleanedItem(todo, id) ==
    [id |-> id,
     todo_type |-> Get(todo, "todo_type", "s:action"),
     purchase_item |-> Get(todo, "purchase_item", EmptyStr),
     action |-> Get(todo, "action", EmptyStr),
     assign_to |-> Get(todo, "assign_to", EmptyStr),
     urgency |-> Get(todo, "urgency", "s:medium"),
     ddl |-> Get(todo, "ddl", EmptyStr),
     done |-> PyBool(Get(todo, "done", PyFalse))]

\* faulty variant: todo.get("id", str(uuid.uuid4())), a default for an absent key only
DrawsUuidIfAbsent(todo) == todo["id"] = Absent

\* todo.get("id") is falsy, so uuid4 is called
DrawsUuid(todo) == ~Truthy(Get(todo, "id", Null))

RECURSIVE Cleaned(_, _)
\* the loop over todos, n uuid4 values drawn before it
Cleaned(raw, n) ==
    IF raw = <<>>
    THEN <<>>
    ELSE LET todo == Head(raw)
         IN  IF DrawsUuid(todo)
             THEN <<CleanedItem(todo, Uuid4(n + 1))>> \o Cleaned(Tail(raw), n + 1)
             ELSE <<CleanedItem(todo, todo["id"])>> \o Cleaned(Tail(raw), n)

RECURSIVE UuidsDrawn(_)
UuidsDrawn(raw) ==
    IF raw = <<>>
    THEN 0
    ELSE (IF DrawsUuid(Head(raw)) THEN 1 ELSE 0) + UuidsDrawn(Tail(raw))

\* parsed.get("todos", [])
TodosOf(obj) == IF obj.has_todos THEN obj.todos ELSE <<>>

\* the reply was recovered as JSON by one of the two json.loads attempts
Recovered(reply) == reply.kind \in {"json", "wrapped", "nondict"}

\* the recovered JSON value is no object: parsed.get raises AttributeError,
\* which nothing catches, and the script run ends there
Raises(reply) == reply.kind = "nondict"

\* the list call_openai_generate returns; reply is what the endpoint did
call_openai_generate(has_client, reply, n) ==
    IF ~has_client
    THEN <<>>
    ELSE IF reply.kind \in {"raise", "empty"}
         THEN <<>>
         ELSE IF ~Recovered(reply)
              THEN <<>>
              ELSE IF Raises(reply) THEN <<>> ELSE Cleaned(TodosOf(reply.parsed), n)

\* uuid4 values call_openai_generate draws
uuids_of_generate(has_client, reply) ==
    IF has_client /\ Recovered(reply) /\ ~Raises(reply)
    THEN UuidsDrawn(TodosOf(reply.parsed))
    ELSE 0

----------------------------------------------------------------------------
(* Inputs of the model *)

\* the history entry of one handler run
Event(op, cause) == [op |-> op, cause |-> cause]

EmptyText == <<>>
NineText == <<" ","o","r","d","e","r"," ","t","e","a"," ">>
MilkText == <<"O","r","d","e","r"," ","m","i","l","k">>
TeaText == <<" ","b","u","y"," ","t","e","a"," ","n","o","w","\n">>

\* what the user may have typed into the summary box
SummaryInputs == {EmptyText, NineText, MilkText, TeaText}

\* a dict of the reply's todos list: every key absent
NoKeys == [f \in Fields |-> Absent]

FullKeys ==
    [id |-> "s:a", todo_type |-> "s:purchase", purchase_item |-> "s:milk",
     action |-> "s:order milk", assign_to |-> "s:Flora", urgency |-> "s:high",
     ddl |-> "s:2024-06-07", done |-> PyTrue]

IdValues == {Absent, EmptyStr, Null, "s:a"}
DoneValues == {Absent, PyFalse, PyTrue, "s:false", "n:0"}

\* the dicts the endpoint may put into todos
RawTodos ==
    {[[base EXCEPT !["id"] = i] EXCEPT !["done"] = d] :
        base \in {NoKeys, FullKeys}, i \in IdValues, d \in DoneValues}

RECURSIVE SeqsUpTo(_, _)
\* the sequences over S of length at most n
SeqsUpTo(S, n) ==
    IF n = 0
    THEN {<<>>}
    ELSE LET shorter == SeqsUpTo(S, n - 1)
         IN  shorter \cup {Append(q, x) : q \in {r \in shorter : Len(r) = n - 1}, x \in S}

\* a parsed reply without a todos key
NoParse == [has_todos |-> FALSE, todos |-> <<>>]

ParsedInputs ==
    {NoParse} \cup {[has_todos |-> TRUE, todos |-> q] : q \in SeqsUpTo(RawTodos, MaxElems)}

\* the endpoint was not called
NotCalled == [kind |-> "uncalled", parsed |-> NoParse]

\* what the endpoint may do in a session
Replies ==
    {[kind |-> k, parsed |-> NoParse] : k \in {"raise", "empty", "garbage", "nondict"}}
        \cup {[kind |-> "json", parsed |-> NoParse],
              [kind |-> "json", parsed |-> [has_todos |-> TRUE, todos |-> <<FullKeys>>]],
              [kind |-> "wrapped",
               parsed |-> [has_todos |-> TRUE,
                           todos |-> <<[NoKeys EXCEPT !["action"] = "s:call Flora"]>>]]}

\* a store found on disk at startup: n records, told apart by their ids
OldRecord(i) ==
    MemoryRecord(IF i % 2 = 0 THEN MilkText ELSE TeaText, <<>>,
                 <<CleanedItem(NoKeys, "s:old-" \o ToString(i))>>)

OldStore(n) == [i \in 1..n |-> OldRecord(i)]

StartFiles ==
    {NoFile, FileOf(OldStore(MAX_MEMORY_ITEMS - 1)), FileOf(OldStore(MAX_MEMORY_ITEMS)),
     FileOf(OldStore(MAX_MEMORY_ITEMS + 1))}

----------------------------------------------------------------------------
(* The session: the script's button handlers *)

\* the editable table is rendered
TableShown == todos # <<>>

\* faulty variant: the session keys set without the test
GenerateStoresAlways(items) == TRUE

\* if items: the three session keys are set
GenerateStores(items) == items # <<>>

\* the message the Generate handler ends with: which branch refused, or "none"
FailureOf(has_client, summary, reply) ==
    IF summary = <<>> \/ Len(Strip(summary)) < MIN_SUMMARY_LEN
    THEN "short"
    ELSE IF ~has_client
         THEN "nokey"
         ELSE IF reply.kind = "raise"
              THEN "raise"
              ELSE IF reply.kind = "empty"
                   THEN "empty"
                   ELSE IF ~Recovered(reply)
                        THEN "garbage"
                        ELSE IF Raises(reply)
                             THEN "crash"
                             ELSE IF TodosOf(reply.parsed) = <<>>
                                  THEN "notodos"
                                  ELSE "none"

\* the failures the handler reports before or around the endpoint call
ReportedFailures == {"nokey", "short", "raise", "empty", "garbage"}

\* history entry of a Generate: "none", "failed" (a reported failure) or
\* "other" (no item came back, or the run crashed)
Outcome(failure) ==
    IF failure = "none"
    THEN "none"
    ELSE IF failure \in ReportedFailures THEN "failed" ELSE "other"

\* the handler reaches client.chat.completions.create
EndpointCalled(has_client, summary) ==
    /\ ~(summary = <<>> \/ Len(Strip(summary)) < MIN_SUMMARY_LEN)
    /\ has_client

GenerateButton(summary, reply) ==
    /\ uuid_count + uuids_of_generate(client, reply) <= MaxUuid
    /\ IF summary = <<>> \/ Len(Strip(summary)) < MIN_SUMMARY_LEN
       THEN UNCHANGED <<todos, ai_original_todos, aliased, current_summary,
                           uuid_count, generated>>
       ELSE LET items == call_openai_generate(client, reply, uuid_count)
            IN  /\ uuid_count' = uuid_count + uuids_of_generate(client, reply)
                /\ IF GenerateStores(items)
                   THEN /\ todos' = items
                        /\ ai_original_todos' = items
                        /\ aliased' = TRUE
                        /\ current_summary' = summary
                        /\ generated' = [summary |-> summary, items |-> items]
                   ELSE UNCHANGED <<todos, ai_original_todos, aliased,
                                    current_summary, generated>>
    /\ last' = Event("Generate", Outcome(FailureOf(client, summary, reply)))
    /\ UNCHANGED <<client, MEMORY_FILE, writes, matchVars, normVars, raceVars>>

\* the inputs of one click: the endpoint answers only when it is called
GenerateInputs ==
    {<<summary, reply>> \in SummaryInputs \X (Replies \cup {NotCalled}) :
        (reply = NotCalled) <=> ~EndpointCalled(client, summary)}

Generate == \E input \in GenerateInputs : GenerateButton(input[1], input[2])

\* a row added in the data editor
AddedRow == [f \in Fields |-> Null]

\* the tables the data editor may hand back for the list shown
EditedTables(list) ==
    {list}
        \cup {[list EXCEPT ![i]["id"] = EmptyStr] : i \in DOMAIN list}
        \cup {SubSeq(list, 1, i - 1) \o SubSeq(list, i + 1, Len(list)) : i \in DOMAIN list}
        \cup (IF Len(list) < MaxTodos THEN {Append(list, AddedRow)} ELSE {})

\* one dict of new_list
SavedRow(row) ==
    [id |-> row["id"],
     todo_type |-> row["todo_type"],
     purchase_item |-> row["purchase_item"],
     action |-> row["action"],
     assign_to |-> row["assign_to"],
     urgency |-> row["urgency"],
     ddl |-> row["ddl"],
     done |-> PyBool(row["done"])]

NewList(edited) == [i \in DOMAIN edited |-> SavedRow(edited[i])]

\* the guard before record_feedback in the Save handler
SaveRecords == current_summary # <<>> /\ ai_original_todos # <<>>

SaveButton(edited) ==
    /\ TableShown
    /\ writes < MaxSaves
    /\ todos' = NewList(edited)
    /\ aliased' = FALSE
    /\ IF SaveRecords
       THEN /\ MEMORY_FILE' = record_feedback(MEMORY_FILE, current_summary,
                                              ai_original_todos, NewList(edited))
            /\ writes' = writes + 1
       ELSE UNCHANGED <<MEMORY_FILE, writes>>
    /\ last' = Event("Save", "none")
    /\ UNCHANGED <<client, ai_original_todos, current_summary, uuid_count, generated,
                   matchVars, normVars, raceVars>>

Save == \E edited \in EditedTables(todos) : SaveButton(edited)

Clear ==
    /\ TableShown
    /\ todos' = <<>>
    /\ aliased' = FALSE
    /\ last' = Event("Clear", "none")
    /\ UNCHANGED <<client, MEMORY_FILE, ai_original_todos, current_summary, uuid_count,
                   generated, writes, matchVars, normVars, raceVars>>

BlankTask(id) ==
    [id |-> id, todo_type |-> "s:action", purchase_item |-> EmptyStr,
     action |-> EmptyStr, assign_to |-> EmptyStr, urgency |-> "s:medium",
     ddl |-> EmptyStr, done |-> PyFalse]

\* the list object ai_original_todos holds after todos.append(item)
OriginalAfterAppend(item) ==
    IF aliased THEN Append(ai_original_todos, item) ELSE ai_original_todos

Add ==
    /\ TableShown
    /\ Len(todos) < MaxTodos
    /\ uuid_count < MaxUuid
    /\ todos' = Append(todos, BlankTask(Uuid4(uuid_count + 1)))
    /\ ai_original_todos' = OriginalAfterAppend(BlankTask(Uuid4(uuid_count + 1)))
    /\ uuid_count' = uuid_count + 1
    /\ last' = Event("Add", "none")
    /\ UNCHANGED <<client, MEMORY_FILE, aliased, current_summary, generated, writes,
                   matchVars, normVars, raceVars>>

\* values of the variables a specification does not use
NoGeneration == [summary |-> <<>>, items |-> <<>>]
NoMatch == examples = <<>> /\ example_idx = <<>> /\ query = <<>>
NoNorm == parsed = NoParse /\ cleaned = <<>>
NoRace == pc = <<>> /\ memory = <<>> /\ feedback = <<>>
NoSession ==
    /\ client = FALSE
    /\ todos = <<>>
    /\ ai_original_todos = <<>>
    /\ aliased = FALSE
    /\ current_summary = <<>>
    /\ generated = NoGeneration

Init ==
    /\ client \in BOOLEAN
    /\ MEMORY_FILE \in StartFiles
    /\ todos = <<>>
    /\ ai_original_todos = <<>>
    /\ aliased = FALSE
    /\ current_summary = <<>>
    /\ uuid_count = 0
    /\ generated = NoGeneration
    /\ writes = 0
    /\ last = Event("start", "none")
    /\ NoMatch
    /\ NoNorm
    /\ NoRace

Next == Generate \/ Save \/ Clear \/ Add

Spec == Init /\ [][Next]_vars

----------------------------------------------------------------------------
(* Properties of the session and of the memory file *)

StoredList == MEMORY_FILE.data

Min(a, b) == IF a < b THEN a ELSE b

\* C1: once save_memory has written, the store holds at most
\* MAX_MEMORY_ITEMS records, whatever the file held at startup.
C1_StoreWithinCap == writes > 0 => Len(StoredList) <= MAX_MEMORY_ITEMS

\* a write onto a store that was over the cap: its two oldest records went
C1_Witness ==
    /\ writes > 0
    /\ Len(StoredList) = MAX_MEMORY_ITEMS
    /\ StoredList[1] = OldRecord(3)

\* the record a Save step appends
AppendedBySave ==
    [summary |-> current_summary, ai_todos |-> ai_original_todos,
     approved_todos |-> todos']

\* C2: a write of record_feedback on r1..rn leaves the last
\* MAX_MEMORY_ITEMS elements of r1..rn followed by the new record: the new
\* record is last, the survivors keep order and content, and at
\* n = MAX_MEMORY_ITEMS exactly r1 goes.
C2_AppendKeepsNewest ==
    [][writes' = writes + 1 =>
        LET old == load_memory(MEMORY_FILE)
            new == MEMORY_FILE'.data
            kept == Len(new) - 1
        IN  /\ MEMORY_FILE'.exists /\ MEMORY_FILE'.valid
            /\ Len(new) = Min(Len(old) + 1, MAX_MEMORY_ITEMS)
            /\ new[Len(new)] = AppendedBySave
            /\ \A j \in 1..kept : new[j] = old[Len(old) - kept + j]
            /\ Len(old) = MAX_MEMORY_ITEMS => new = Tail(old) \o <<AppendedBySave>>]_vars

\* a 26th record was appended to 25: the oldest went, the new one is last
C2_Witness ==
    /\ writes = 1
    /\ Len(StoredList) = MAX_MEMORY_ITEMS
    /\ StoredList[1] = OldRecord(2)
    /\ StoredList[MAX_MEMORY_ITEMS - 1] = OldRecord(MAX_MEMORY_ITEMS)
    /\ StoredList[MAX_MEMORY_ITEMS].summary = current_summary

\* C5: a Generate that fails (no API key, input too short, the call
\* raising, an empty reply, a reply not recoverable as JSON) leaves the
\* to-do list, the original AI output, the current summary and the memory
\* store as they were.
C5_FailedGenerateKeepsState ==
    [][(last'.op = "Generate" /\ last'.cause = "failed")
          => UNCHANGED <<todos, ai_original_todos, current_summary, MEMORY_FILE>>]_vars

\* a Generate failed in a session that already held a list
C5_Witness ==
    /\ last = Event("Generate", "failed")
    /\ todos # <<>>
    /\ current_summary # <<>>

\* C6: every item of the session to-do list has a non-empty id.
C6_EveryIdNonEmpty == \A i \in DOMAIN todos : Truthy(todos[i]["id"])

\* C8: the ai_todos of the record a Save appends are the items the last
\* successful generation produced.
C8_RecordKeepsOriginal ==
    (last.op = "Save" /\ writes > 0)
        => StoredList[Len(StoredList)].ai_todos = generated.items

\* C9: every Save appends exactly one record, whose summary is the input
\* of the last successful generation and whose approved_todos is the list
\* just saved; no other handler writes the store; record_feedback with an
\* empty summary leaves the store as it is.
C9_OnlySaveWrites ==
    /\ [][IF last'.op = "Save"
          THEN LET old == load_memory(MEMORY_FILE)
                   new == MEMORY_FILE'.data
                   kept == Len(new) - 1
               IN  /\ writes' = writes + 1
                   /\ Len(new) >= 1
                   /\ new[Len(new)].summary = generated.summary
                   /\ new[Len(new)].approved_todos = todos'
                   /\ kept <= Len(old)
                   /\ SubSeq(new, 1, kept) = SubSeq(old, Len(old) - kept + 1, Len(old))
                   /\ kept = Len(old) \/ Len(new) = MAX_MEMORY_ITEMS
          ELSE MEMORY_FILE' = MEMORY_FILE /\ writes' = writes]_vars
    /\ [](record_feedback(MEMORY_FILE, EmptyText, ai_original_todos, todos) = MEMORY_FILE)

\* a Save of an edited list wrote the first record of a fresh store
C9_Witness ==
    /\ last.op = "Save"
    /\ writes = 1
    /\ Len(StoredList) = 1
    /\ StoredList[1].summary = generated.summary
    /\ StoredList[1].approved_todos = todos
    /\ todos # generated.items

----------------------------------------------------------------------------
(* The matcher on its own: every small store against every query *)

MatchSummaries ==
    {<<>>,
     <<"m","i","l","k">>,
     <<"M","I","L","K",","," ","t","e","a">>,
     <<"t","e","a">>,
     <<"?","!">>,
     <<"i","t","'","s">>}

MatchQueries ==
    {<<>>,
     <<"?","!"," ">>,
     <<"M","i","l","k">>,
     <<"t","e","a"," ","m","i","l","k">>,
     <<"i","t","'","s"," ","t","e","a">>}

MatchStores ==
    {MemoryRecord(t, <<>>, <<>>) : t \in MatchSummaries}

InitMatch ==
    /\ MEMORY_FILE \in {NoFile, CorruptFile}
                          \cup {FileOf(q) : q \in SeqsUpTo(MatchStores, MaxStore)}
    /\ query \in MatchQueries
    /\ examples = <<>>
    /\ example_idx = <<>>
    /\ last = Event("start", "none")
    /\ uuid_count = 0
    /\ writes = 0
    /\ NoSession
    /\ NoNorm
    /\ NoRace

Match ==
    /\ last.op = "start"
    /\ examples' = find_similar_examples(MEMORY_FILE, query)
    /\ example_idx' = similar_positions(MEMORY_FILE, query)
    /\ last' = Event("Match", "none")
    /\ UNCHANGED <<MEMORY_FILE, query, writes, sessionVars, normVars, raceVars>>

NextMatch == Match

SpecMatch == InitMatch /\ [][NextMatch]_vars

\* Jaccard similarity of the query and stored record i, as num / den
SimNum(i) ==
    Cardinality(tokenize(query) \cap tokenize(load_memory(MEMORY_FILE)[i].summary))
SimDen(i) ==
    Cardinality(tokenize(query) \cup tokenize(load_memory(MEMORY_FILE)[i].summary))

SimGeq(i, j) == SimNum(i) * SimDen(j) >= SimNum(j) * SimDen(i)
SimEq(i, j) == SimNum(i) * SimDen(j) = SimNum(j) * SimDen(i)

\* C3: the matcher returns at most max_examples records, each a stored
\* record of similarity above 0; no query token or no stored record gives
\* the empty list.
C3_AtMostKPositive ==
    last.op = "Match" =>
        LET list == load_memory(MEMORY_FILE)
        IN  /\ Len(examples) <= max_examples
            /\ \A j \in DOMAIN examples :
                  \E i \in DOMAIN list : list[i] = examples[j] /\ SimNum(i) > 0
            /\ (\A c \in Range(query) : ~IsTokenChar(c)) => examples = <<>>
            /\ list = <<>> => examples = <<>>

\* four stored records all match the query, three are returned
C3_Witness ==
    /\ last.op = "Match"
    /\ Len(load_memory(MEMORY_FILE)) = 4
    /\ \A i \in 1..4 : SimNum(i) > 0
    /\ Len(examples) = max_examples

\* stored records whose token set is the query's: score 1.0
Perfect ==
    {i \in DOMAIN load_memory(MEMORY_FILE) : SimNum(i) > 0 /\ SimNum(i) = SimDen(i)}

\* C4: the examples come in non-increasing score, equal scores in the
\* order of insertion; no record left out scores above one returned, nor
\* equal to a later-inserted one returned; records scoring 1.0 (when they
\* fit into max_examples) are all returned, first, the earlier one first.
C4_RankedStable ==
    last.op = "Match" =>
        LET list == load_memory(MEMORY_FILE)
            n == Len(example_idx)
            chosen == Range(example_idx)
        IN  /\ Len(examples) = n
            /\ \A j \in 1..n :
                  example_idx[j] \in DOMAIN list /\ examples[j] = list[example_idx[j]]
            /\ \A j, k \in 1..n :
                  j < k => /\ SimGeq(example_idx[j], example_idx[k])
                           /\ SimEq(example_idx[j], example_idx[k])
                                 => example_idx[j] < example_idx[k]
            /\ \A i \in DOMAIN list \ chosen :
                  SimNum(i) > 0 =>
                      /\ n = max_examples
                      /\ \A j \in 1..n :
                            /\ SimGeq(example_idx[j], i)
                            /\ SimEq(example_idx[j], i) => example_idx[j] < i
            /\ Cardinality(Perfect) <= max_examples =>
                  /\ Perfect \subseteq chosen
                  /\ \A j \in 1..Cardinality(Perfect) : example_idx[j] \in Perfect

\* two records score 1.0 behind an earlier, lower-scoring one: both are
\* returned first, in insertion order, and a fourth match is left out
C4_Witness ==
    /\ last.op = "Match"
    /\ Len(load_memory(MEMORY_FILE)) = 4
    /\ Perfect = {2, 4}
    /\ SimNum(1) > 0
    /\ SimNum(3) > 0
    /\ example_idx = <<2, 4, 1>>

----------------------------------------------------------------------------
(* The normalizer on its own: every small parsed reply *)

InitNorm ==
    /\ parsed \in ParsedInputs
    /\ cleaned = <<>>
    /\ uuid_count \in {0, 1}
    /\ last = Event("start", "none")
    /\ MEMORY_FILE = NoFile
    /\ writes = 0
    /\ client = TRUE
    /\ todos = <<>>
    /\ ai_original_todos = <<>>
    /\ aliased = FALSE
    /\ current_summary = <<>>
    /\ generated = NoGeneration
    /\ NoMatch
    /\ NoRace

Normalize ==
    /\ last.op = "start"
    /\ cleaned' = call_openai_generate(client, [kind |-> "json", parsed |-> parsed],
                                       uuid_count)
    /\ uuid_count' = uuid_count
                        + uuids_of_generate(client, [kind |-> "json", parsed |-> parsed])
    /\ last' = Event("Normalize", "none")
    /\ UNCHANGED <<client, MEMORY_FILE, todos, ai_original_todos, aliased,
                   current_summary, generated, parsed, writes, matchVars, raceVars>>

NextNorm == Normalize

SpecNorm == InitNorm /\ [][NextNorm]_vars

\* the fixed defaults of the fields other than id
Defaults ==
    [todo_type |-> "s:action", purchase_item |-> EmptyStr, action |-> EmptyStr,
     assign_to |-> EmptyStr, urgency |-> "s:medium", ddl |-> EmptyStr, done |-> PyFalse]

\* the todos list of the parsed reply
RawList == IF parsed.has_todos THEN parsed.todos ELSE <<>>

\* elements whose id is absent or empty
Idless == {i \in DOMAIN RawList : RawList[i]["id"] \in Falsy \cup {Absent}}

\* item i has the element's id, or a fresh non-empty one when it had none
IdRule(i) ==
    IF i \in Idless
    THEN /\ Truthy(cleaned[i]["id"])
         /\ \E k \in (uuid_count - Cardinality(Idless) + 1)..uuid_count :
               cleaned[i]["id"] = Uuid4(k)
         /\ \A j \in DOMAIN cleaned : j # i => cleaned[j]["id"] # cleaned[i]["id"]
    ELSE cleaned[i]["id"] = RawList[i]["id"]

\* field f of item i is the element's value, or the default when absent
CopyRule(i, f) ==
    cleaned[i][f] = IF RawList[i][f] # Absent THEN RawList[i][f] ELSE Defaults[f]

\* C7 as stated: n elements give n items in order, each with the eight
\* fields, every field present copied, every absent one defaulted, an absent
\* or empty id replaced by a fresh one; no todos field gives no item.
C7_PresentFieldsCopied ==
    last.op = "Normalize" =>
        /\ Len(cleaned) = Len(RawList)
        /\ \A i \in DOMAIN RawList :
              /\ DOMAIN cleaned[i] = Fields
              /\ IdRule(i)
              /\ \A f \in Fields \ {"id"} : CopyRule(i, f)

\* C7 amended: as above, but done is the truth value of the element's done
\* (false when absent), not a copy of it.
C7_DoneCoerced ==
    last.op = "Normalize" =>
        /\ Len(cleaned) = Len(RawList)
        /\ \A i \in DOMAIN RawList :
              /\ DOMAIN cleaned[i] = Fields
              /\ IdRule(i)
              /\ \A f \in Fields \ {"id", "done"} : CopyRule(i, f)
              /\ cleaned[i]["done"] \in {PyTrue, PyFalse}
              /\ cleaned[i]["done"] = PyFalse
                    <=> RawList[i]["done"] \in Falsy \cup {Absent}

\* two elements normalized: the first without id and with done "false" (a
\* str), the second complete
C7_Witness ==
    /\ last.op = "Normalize"
    /\ Len(cleaned) = 2
    /\ RawList[1]["id"] = Absent
    /\ RawList[1]["done"] = "s:false"
    /\ RawList[1]["urgency"] = Absent
    /\ RawList[2]["id"] = "s:a"
    /\ RawList[2]["urgency"] = "s:high"
    /\ cleaned[1]["done"] = PyTrue
    /\ cleaned[2]["id"] = "s:a"

----------------------------------------------------------------------------
(* Two sessions inside record_feedback on one memory file, no lock *)

Sessions == {1, 2}

FeedbackInputs ==
    {[summary |-> t, ai_todos |-> <<BlankTask("s:a")>>, edited_todos |-> e] :
        t \in {EmptyText, MilkText, TeaText},
        e \in {<<>>, <<BlankTask("s:a")>>}}

InitRace ==
    /\ MEMORY_FILE \in StartFiles \cup {CorruptFile, FileOf(OldStore(1))}
    /\ feedback \in [Sessions -> FeedbackInputs]
    /\ pc = [s \in Sessions |-> "idle"]
    /\ memory = [s \in Sessions |-> <<>>]
    /\ last = Event("start", "none")
    /\ uuid_count = 0
    /\ writes = 0
    /\ NoSession
    /\ NoMatch
    /\ NoNorm

\* if not summary_text: return; memory = load_memory()
RaceLoad(s) ==
    /\ pc[s] = "idle"
    /\ IF feedback[s].summary = <<>>
       THEN /\ pc' = [pc EXCEPT ![s] = "done"]
            /\ UNCHANGED memory
       ELSE /\ pc' = [pc EXCEPT ![s] = "loaded"]
            /\ memory' = [memory EXCEPT ![s] = load_memory(MEMORY_FILE)]
    /\ last' = Event("RaceLoad", "none")
    /\ UNCHANGED <<MEMORY_FILE, feedback, uuid_count, writes, sessionVars, matchVars,
                   normVars>>

\* memory.append(...); save_memory(memory): write_text opens the file,
\* which empties it
RaceOpen(s) ==
    /\ pc[s] = "loaded"
    /\ memory' = [memory EXCEPT ![s] =
                      Append(memory[s], MemoryRecord(feedback[s].summary,
                                                     feedback[s].ai_todos,
                                                     feedback[s].edited_todos))]
    /\ MEMORY_FILE' = CorruptFile
    /\ pc' = [pc EXCEPT ![s] = "open"]
    /\ last' = Event("RaceOpen", "none")
    /\ UNCHANGED <<feedback, uuid_count, writes, sessionVars, matchVars, normVars>>

\* what the file may hold after session s writes its text: when the other
\* session wrote since s opened the file, the two texts overlay each other
\* and the result may be no JSON
WrittenFiles(s) ==
    IF pc[s] = "overlaid"
    THEN {save_memory(memory[s]), CorruptFile}
    ELSE {save_memory(memory[s])}

\* save_memory: the text is written and the file closed
RaceSave(s) ==
    /\ pc[s] \in {"open", "overlaid"}
    /\ MEMORY_FILE' \in WrittenFiles(s)
    /\ pc' = [t \in Sessions |->
                 IF t = s THEN "done" ELSE IF pc[t] = "open" THEN "overlaid" ELSE pc[t]]
    /\ writes' = writes + 1
    /\ last' = Event("RaceSave", "none")
    /\ UNCHANGED <<memory, feedback, uuid_count, sessionVars, matchVars, normVars>>

NextRace == \E s \in Sessions : RaceLoad(s) \/ RaceOpen(s) \/ RaceSave(s)

SpecRace == InitRace /\ [][NextRace]_vars

\* the record session s appends
RaceRecord(s) ==
    [summary |-> feedback[s].summary, ai_todos |-> feedback[s].ai_todos,
     approved_todos |-> feedback[s].edited_todos]

\* C10: two sessions in record_feedback, load and save being separate
\* steps: the store stays within MAX_MEMORY_ITEMS after every save, in
\* every interleaving (and one session's record can be lost: the witness).
C10_RaceKeepsCap ==
    writes > 0 => Len(load_memory(MEMORY_FILE)) <= MAX_MEMORY_ITEMS

\* both saves completed and the store holds only the second session's record
C10_LostUpdate ==
    /\ \A s \in Sessions : pc[s] = "done"
    /\ writes = 2
    /\ RaceRecord(1) # RaceRecord(2)
    /\ RaceRecord(2) \in Range(load_memory(MEMORY_FILE))
    /\ RaceRecord(1) \notin Range(load_memory(MEMORY_FILE))

====
